---- MODULE Spec2Model ----
(***************************************************************************)
(* Transcripto: the HTTP layer (main.py), the transcription client         *)
(* (gemini_transcriber.py) and the notes generator                         *)
(* (gemini_notes_generator.py) as one state machine.  Two requests to      *)
(* POST /api/transcribe run concurrently; they share the upload folder,    *)
(* the note store and the process-wide API key.  Text values are TLA+      *)
(* strings, handled character by character as the Python code does.        *)
(***************************************************************************)
EXTENDS Integers, Sequences, FiniteSets, TLC

(***************************************************************************)
(* Python string primitives                                                *)
(***************************************************************************)
UPPER == "ABCDEFGHIJKLMNOPQRSTUVWXYZ"
LOWER == "abcdefghijklmnopqrstuvwxyz"
DIGITS == "0123456789"

Char(s, i) == SubSeq(s, i, i)

Chars(s) == {Char(s, i) : i \in 1..Len(s)}

InStr(c, s) == \E i \in 1..Len(s) : Char(s, i) = c

IndexIn(c, s) == CHOOSE i \in 1..Len(s) : Char(s, i) = c

UpperChars == Chars(UPPER)

LowerChars == Chars(LOWER)

WordChars == Chars(UPPER) \cup Chars(LOWER) \cup Chars(DIGITS) \cup {"_"}

ToLower == [c \in UpperChars |-> Char(LOWER, IndexIn(c, UPPER))]

ToUpper == [c \in LowerChars |-> Char(UPPER, IndexIn(c, LOWER))]

LowerChar(c) == IF c \in UpperChars THEN ToLower[c] ELSE c

UpperChar(c) == IF c \in LowerChars THEN ToUpper[c] ELSE c

IsCased(c) == c \in UpperChars \/ c \in LowerChars

\* \w of the re module (ASCII part): letters, digits and the underscore
IsWordChar(c) == c \in WordChars

RECURSIVE lower(_)
lower(s) == IF Len(s) = 0 THEN "" ELSE LowerChar(Char(s, 1)) \o lower(SubSeq(s, 2, Len(s)))

startswith(s, prefix) == Len(s) >= Len(prefix) /\ SubSeq(s, 1, Len(prefix)) = prefix

\* Python's `sub in s`
Contains(s, sub) ==
    \E i \in 1..(Len(s) - Len(sub) + 1) : SubSeq(s, i, i + Len(sub) - 1) = sub

RECURSIVE replace(_, _, _)
replace(s, old, new) ==
    IF Len(s) = 0 THEN ""
    ELSE (IF Char(s, 1) = old THEN new ELSE Char(s, 1)) \o replace(SubSeq(s, 2, Len(s)), old, new)

\* index of the last occurrence of character c in s, 0 when there is none
LastIndex(s, c) ==
    IF InStr(c, s) THEN CHOOSE i \in 1..Len(s) :
                            Char(s, i) = c /\ \A j \in (i + 1)..Len(s) : Char(s, j) # c
    ELSE 0

\* s.rsplit('.', 1)[0]
rsplit_head(s) == IF LastIndex(s, ".") = 0 THEN s ELSE SubSeq(s, 1, LastIndex(s, ".") - 1)

\* s.rsplit('.', 1)[1]   (only evaluated when '.' is in s)
rsplit_tail(s) == SubSeq(s, LastIndex(s, ".") + 1, Len(s))

\* str.title(): a cased character is upper-cased after an uncased one (or at
\* the start) and lower-cased after a cased one
RECURSIVE title_from(_, _)
title_from(s, prevCased) ==
    IF Len(s) = 0 THEN ""
    ELSE LET c == Char(s, 1) IN
         (IF IsCased(c) THEN (IF prevCased THEN LowerChar(c) ELSE UpperChar(c)) ELSE c)
            \o title_from(SubSeq(s, 2, Len(s)), IsCased(c))

title(s) == title_from(s, FALSE)

\* s.strip(chars): drop leading and trailing characters that are in chars
RECURSIVE lstrip(_, _)
lstrip(s, chars) ==
    IF Len(s) > 0 /\ InStr(Char(s, 1), chars) THEN lstrip(SubSeq(s, 2, Len(s)), chars) ELSE s

RECURSIVE rstrip(_, _)
rstrip(s, chars) ==
    IF Len(s) > 0 /\ InStr(Char(s, Len(s)), chars)
    THEN rstrip(SubSeq(s, 1, Len(s) - 1), chars) ELSE s

strip(s, chars) == rstrip(lstrip(s, chars), chars)

(***************************************************************************)
(* File-name handling                                                      *)
(***************************************************************************)
ALLOWED_EXTENSIONS == {"mp3", "wav", "m4a", "flac", "webm"}

MIME_TYPE_MAP == {".mp3", ".wav", ".m4a", ".flac", ".webm"}

allowed_file_nolower(filename) ==
    InStr(".", filename) /\ rsplit_tail(filename) \in ALLOWED_EXTENSIONS

allowed_file(filename) ==
    InStr(".", filename) /\ lower(rsplit_tail(filename)) \in ALLOWED_EXTENSIONS

\* "_".join(s.split()): runs of blanks become one underscore, none at the ends
RECURSIVE join_split(_, _)
join_split(s, pendingSep) ==
    IF Len(s) = 0 THEN ""
    ELSE IF Char(s, 1) = " " THEN join_split(SubSeq(s, 2, Len(s)), pendingSep)
    ELSE (IF pendingSep THEN "_" ELSE "") \o Char(s, 1)
            \o join_split(lstrip(SubSeq(s, 2, Len(s)), " "),
                          Len(s) > 1 /\ Char(s, 2) = " ")

\* re.sub(r"[^A-Za-z0-9_.-]", "", s)
RECURSIVE ascii_strip(_)
ascii_strip(s) ==
    IF Len(s) = 0 THEN ""
    ELSE (IF IsWordChar(Char(s, 1)) \/ Char(s, 1) \in {".", "-"} THEN Char(s, 1) ELSE "")
            \o ascii_strip(SubSeq(s, 2, Len(s)))

\* werkzeug.utils.secure_filename
secure_filename(filename) ==
    strip(ascii_strip(join_split(replace(filename, "/", " "), FALSE)), "._")

UPLOAD_FOLDER == "uploads/"

\* os.path.splitext(path)[1]: from the last dot of the base name, unless that
\* base name has only dots before it
splitext_ext(path) ==
    LET sepIndex == LastIndex(path, "/")
        dotIndex == LastIndex(path, ".")
    IN  IF dotIndex > sepIndex
           /\ \E k \in (sepIndex + 1)..(dotIndex - 1) : Char(path, k) # "."
        THEN SubSeq(path, dotIndex, Len(path))
        ELSE ""

\* re.sub(r'[^\w\-]', '', s)
RECURSIVE keep_word_hyphen(_)
keep_word_hyphen(s) ==
    IF Len(s) = 0 THEN ""
    ELSE (IF IsWordChar(Char(s, 1)) \/ Char(s, 1) = "-" THEN Char(s, 1) ELSE "")
            \o keep_word_hyphen(SubSeq(s, 2, Len(s)))

\* main.py: the title the HTTP layer derives from the stored file name
base_title(filename) == title(replace(replace(rsplit_head(filename), "_", " "), "-", " "))

sanitized_title_no_hyphen(custom_title) == keep_word_hyphen(custom_title)

\* gemini_notes_generator.py: the sanitized title of a non-empty custom title
sanitized_title(custom_title) == keep_word_hyphen(replace(custom_title, " ", "-"))

(***************************************************************************)
(* Inputs and remote outcomes                                              *)
(***************************************************************************)
Reqs == {"r1", "r2"}

\* file names a client may send in the 'audio' part
Filenames == {"", "Meeting.MP3", "notes.txt", ".mp3", "audio"}

\* messages of the exceptions the remote service raises, per call
Causes == {"400 API key not valid",
           "504 Deadline expired",
           "403 PERMISSION_DENIED",
           "500 INTERNAL"}

PollCauses == {"500 INTERNAL"}

GenerateCauses == {"500 INTERNAL", "504 Deadline expired"}

\* the last one is the IndexError of a response without candidates
NotesCauses == {"404 model is not found", "500 INTERNAL", "list index out of range"}

\* types.FileState; the asset is still being processed in PROCESSING
FileStates == {"PROCESSING", "ACTIVE", "FAILED"}

\* text of the first candidate of a transcription response
TranscriptTexts == {" Hello team. ", "  "}

\* the bullet character U+2022, written as an ASCII character
BULLET == "*"

\* text of the first candidate of a notes response
NotesTexts == {"Intro\n- point one\n\n Summary line ", "* done\n \n-"}

\* form values 'prompt' and 'template' of the request
Prompts == {"", "Focus on decisions"}

Templates == {"", "Cornell"}

None == "<None>"

timeout_seconds == 120

sleep_seconds == 2

VARIABLES
    API_KEY,    \* main.py: GEMINI_API_KEY as read at process start
    uploads,    \* UPLOAD_FOLDER: path -> [owner, size] of the files that exist
    docs,       \* DOCX_DIR: path -> the document saved there
    rq,         \* per request: position in the handler and its local variables
    chat        \* the last POST /api/chat request: status and remote calls

vars == <<API_KEY, uploads, docs, rq, chat>>

NoResp == [status |-> 0, error |-> "", title |-> "", docx_path |-> None]

InitReq ==
    [pc |-> "idle", hasAudio |-> FALSE, orig |-> "", filename |-> "", audio_path |-> "",
     fdOrphan |-> FALSE, wrote |-> FALSE, removed |-> FALSE, removedForeign |-> FALSE,
     file_state |-> "NONE", first_state |-> "NONE", elapsed |-> 0, sleeps |-> 0,
     pending |-> 0, calls |-> <<>>, asset |-> "none", staged |-> "none",
     response |-> "", transcript |-> "", returned |-> "",
     user_prompt |-> "", custom_title |-> "", template |-> "",
     prompt |-> "", notes_text |-> "",
     final_title |-> "", docx_path |-> None, saved |-> FALSE, resp |-> NoResp]

Init ==
    /\ API_KEY \in {"", "AIzaSy-key"}
    /\ uploads = <<>>
    /\ docs = <<>>
    /\ rq = [r \in Reqs |-> InitReq]
    /\ chat = [status |-> 0, calls |-> 0]

Exists(path) == path \in DOMAIN uploads

\* `if not API_KEY`, the first statement of both remote-call endpoints
not_API_KEY_skipped == FALSE

not_API_KEY == API_KEY = ""

\* jsonify(...), status: the handler returns
Respond(rec, status, error) ==
    [rec EXCEPT !.pc = "done", !.resp = [NoResp EXCEPT !.status = status, !.error = error]]

Set(r, rec) == rq' = [rq EXCEPT ![r] = rec]

\* os.remove(path) by request r, whose record becomes rec: the path is unlinked,
\* and a writer that still holds the file open keeps an unlinked file
Remove(r, rec, path) ==
    /\ uploads' = [p \in DOMAIN uploads \ {path} |-> uploads[p]]
    /\ rq' = [q \in Reqs |->
                IF q = r THEN [rec EXCEPT !.removedForeign = @ \/ uploads[path].owner # r]
                ELSE IF rq[q].pc = "write" /\ rq[q].audio_path = path
                     THEN [rq[q] EXCEPT !.fdOrphan = TRUE]
                     ELSE rq[q]]

(***************************************************************************)
(* main.py, handle_transcription: validation and the temp upload           *)
(***************************************************************************)
Receive_late_reject(r) ==
    /\ rq[r].pc = "idle"
    /\ \E hasAudio \in BOOLEAN, fname \in Filenames :
        LET rec == [rq[r] EXCEPT !.hasAudio = hasAudio, !.orig = fname]
            path == UPLOAD_FOLDER \o secure_filename(fname)
            rejected == ~not_API_KEY /\ hasAudio /\ fname # "" /\ ~allowed_file(fname)
        IN
        /\ Set(r, IF not_API_KEY
                  THEN Respond(rec, 401, "GEMINI_API_KEY is missing. Please set it in your environment.")
                  ELSE IF ~hasAudio THEN Respond(rec, 400, "No audio file part")
                  ELSE IF fname = "" THEN Respond(rec, 400, "No selected file")
                  ELSE IF fname # "" /\ allowed_file(fname)
                  THEN [rec EXCEPT !.pc = "open",
                                   !.filename = secure_filename(fname),
                                   !.audio_path = path]
                  ELSE Respond(rec, 400, "File type not allowed or other internal file error"))
        /\ uploads' = IF rejected
                      THEN [p \in DOMAIN uploads \cup {path} |->
                                IF p = path THEN [owner |-> r, size |-> 1] ELSE uploads[p]]
                      ELSE uploads
    /\ UNCHANGED <<API_KEY, docs, chat>>

\* the credential, the 'audio' part, the file name and its extension are
\* checked; an accepted name is made safe and joined to the upload folder
Receive(r) ==
    /\ rq[r].pc = "idle"
    /\ \E hasAudio \in BOOLEAN, fname \in Filenames :
        LET rec == [rq[r] EXCEPT !.hasAudio = hasAudio, !.orig = fname] IN
        Set(r, IF not_API_KEY
               THEN Respond(rec, 401, "GEMINI_API_KEY is missing. Please set it in your environment.")
               ELSE IF ~hasAudio THEN Respond(rec, 400, "No audio file part")
               ELSE IF fname = "" THEN Respond(rec, 400, "No selected file")
               ELSE IF fname # "" /\ allowed_file(fname)
               THEN [rec EXCEPT !.pc = "open",
                                !.filename = secure_filename(fname),
                                !.audio_path = UPLOAD_FOLDER \o secure_filename(fname)]
               ELSE Respond(rec, 400, "File type not allowed or other internal file error"))
    /\ UNCHANGED <<API_KEY, uploads, docs, chat>>

\* open(audio_path, 'wb'): creates the file or truncates the one that is there
OpenUpload(r) ==
    /\ rq[r].pc = "open"
    /\ uploads' = [p \in DOMAIN uploads \cup {rq[r].audio_path} |->
                     IF p = rq[r].audio_path THEN [owner |-> r, size |-> 0] ELSE uploads[p]]
    /\ Set(r, [rq[r] EXCEPT !.pc = "write", !.wrote = TRUE])
    /\ UNCHANGED <<API_KEY, docs, chat>>

\* open() raises: nothing is written
OpenUploadFails(r) ==
    /\ rq[r].pc = "open"
    /\ Set(r, Respond(rq[r], 500, "Failed to save file locally: [Errno 13] Permission denied"))
    /\ UNCHANGED <<API_KEY, uploads, docs, chat>>

\* f.write(file.read()) of an upload of `size` bytes through the open file
WriteUpload(r) ==
    /\ rq[r].pc = "write"
    /\ \E size \in {0, 1} :
        uploads' = IF rq[r].fdOrphan \/ size = 0 THEN uploads
                   ELSE [uploads EXCEPT ![rq[r].audio_path] = [owner |-> r, size |-> size]]
    /\ Set(r, [rq[r] EXCEPT !.pc = "check"])
    /\ UNCHANGED <<API_KEY, docs, chat>>

\* f.write raises (disk full): the truncated file stays
WriteUploadFails(r) ==
    /\ rq[r].pc = "write"
    /\ Set(r, Respond(rq[r], 500, "Failed to save file locally: [Errno 28] No space left on device"))
    /\ UNCHANGED <<API_KEY, uploads, docs, chat>>

\* os.path.exists / os.path.getsize after the write
CheckSaved(r) ==
    /\ rq[r].pc = "check"
    /\ Set(r, IF ~Exists(rq[r].audio_path) \/ uploads[rq[r].audio_path].size = 0
              THEN Respond(rq[r], 500, "Failed to save audio file to disk.")
              ELSE [rq[r] EXCEPT !.pc = "transcribe"])
    /\ UNCHANGED <<API_KEY, uploads, docs, chat>>

(***************************************************************************)
(* gemini_transcriber.py, transcribe_audio                                 *)
(***************************************************************************)
\* transcribe_audio returns value v to the handler; its local variables
\* (file_state, start_time, the loop's progress) end with the call
Return(rec, v) ==
    [rec EXCEPT !.pc = "transcribed", !.transcript = v, !.returned = v,
                !.file_state = "NONE", !.first_state = "NONE",
                !.elapsed = 0, !.sleeps = 0, !.pending = 0]

\* a remote call that creates, uses or deletes the staged asset is appended to
\* the request's call log (status polls are counted by sleeps)
Call(rec, name) == [rec EXCEPT !.calls = Append(@, name)]

DeleteAsset_twice(rec, ok) ==
    [Call(Call(rec, "delete"), "delete") EXCEPT !.asset = IF ok THEN "deleted" ELSE @]

\* try: client.files.delete(name=...) except: pass -- the call is issued once;
\* the asset is gone when it succeeded
DeleteAsset(rec, ok) ==
    [Call(rec, "delete") EXCEPT !.asset = IF ok THEN "deleted" ELSE @]

\* os.path.exists, the API key and the MIME type, before any remote call
T_Start(r) ==
    /\ rq[r].pc = "transcribe"
    /\ Set(r, IF ~Exists(rq[r].audio_path)
              THEN [rq[r] EXCEPT !.pc = "exc_check",
                                 !.transcript = "(Unhandled error during transcription: Audio file not found)"]
              ELSE IF API_KEY = ""
              THEN Return(rq[r], "ERROR: GEMINI_API_KEY is missing or not set")
              ELSE IF lower(splitext_ext(rq[r].audio_path)) \notin MIME_TYPE_MAP
              THEN Return(rq[r], "ERROR: Unsupported file type: " \o splitext_ext(rq[r].audio_path))
              ELSE [rq[r] EXCEPT !.pc = "upload"])
    /\ UNCHANGED <<API_KEY, uploads, docs, chat>>

\* client.files.upload(file=audio_path) succeeds: the bytes now at audio_path
\* are staged, and the asset is in some initial state
T_Upload(r) ==
    /\ rq[r].pc = "upload"
    /\ Exists(rq[r].audio_path)
    /\ \E s \in FileStates :
        Set(r, [Call(rq[r], "upload") EXCEPT
                    !.pc = "poll", !.asset = "stored",
                    !.staged = uploads[rq[r].audio_path].owner,
                    !.file_state = s, !.first_state = s,
                    !.pending = IF s = "PROCESSING" THEN 1 ELSE 0])
    /\ UNCHANGED <<API_KEY, uploads, docs, chat>>

\* the upload raises: the file is gone, or the remote service refuses
T_UploadFails(r) ==
    /\ rq[r].pc = "upload"
    /\ \E e \in IF Exists(rq[r].audio_path) THEN Causes ELSE {"[Errno 2] No such file or directory"} :
        Set(r, Return(Call(rq[r], "upload"), "ERROR: Failed to upload audio file: " \o e))
    /\ UNCHANGED <<API_KEY, uploads, docs, chat>>

T_Timeout_never(r) ==
    /\ FALSE
    /\ UNCHANGED vars

\* loop head, time.time() - start_time > timeout_seconds
T_Timeout(r) ==
    /\ rq[r].pc = "poll"
    /\ rq[r].file_state # "ACTIVE"
    /\ rq[r].elapsed > timeout_seconds
    /\ \E ok \in BOOLEAN :
        Set(r, Return(DeleteAsset(rq[r], ok), "ERROR: File processing timed out after 120s."))
    /\ UNCHANGED <<API_KEY, uploads, docs, chat>>

T_Failed_no_delete(r) ==
    /\ rq[r].pc = "poll"
    /\ rq[r].file_state # "ACTIVE"
    /\ ~(rq[r].elapsed > timeout_seconds)
    /\ rq[r].file_state = "FAILED"
    /\ Set(r, Return(rq[r], "ERROR: File processing failed on Gemini's side."))
    /\ UNCHANGED <<API_KEY, uploads, docs, chat>>

\* loop body, file_state == FAILED
T_Failed(r) ==
    /\ rq[r].pc = "poll"
    /\ rq[r].file_state # "ACTIVE"
    /\ ~(rq[r].elapsed > timeout_seconds)
    /\ rq[r].file_state = "FAILED"
    /\ \E ok \in BOOLEAN :
        Set(r, Return(DeleteAsset(rq[r], ok), "ERROR: File processing failed on Gemini's side."))
    /\ UNCHANGED <<API_KEY, uploads, docs, chat>>

\* time.sleep(2), then client.files.get
Sleep(rec) == [rec EXCEPT !.elapsed = @ + sleep_seconds, !.sleeps = @ + 1]

T_Poll(r) ==
    /\ rq[r].pc = "poll"
    /\ rq[r].file_state # "ACTIVE"
    /\ ~(rq[r].elapsed > timeout_seconds)
    /\ rq[r].file_state # "FAILED"
    /\ \E s \in FileStates :
        Set(r, [Sleep(rq[r]) EXCEPT
                    !.file_state = s,
                    !.pending = IF s = "PROCESSING" THEN @ + 1 ELSE @])
    /\ UNCHANGED <<API_KEY, uploads, docs, chat>>

\* client.files.get raises
T_PollFails(r) ==
    /\ rq[r].pc = "poll"
    /\ rq[r].file_state # "ACTIVE"
    /\ ~(rq[r].elapsed > timeout_seconds)
    /\ rq[r].file_state # "FAILED"
    /\ \E e \in PollCauses :
        Set(r, Return(Sleep(rq[r]),
                      "ERROR: Could not get file status after upload: " \o e))
    /\ UNCHANGED <<API_KEY, uploads, docs, chat>>

\* the loop is left with the asset ACTIVE; types.Part(...) raises
T_PartsFail(r) ==
    /\ rq[r].pc = "poll"
    /\ rq[r].file_state = "ACTIVE"
    /\ Set(r, Return(rq[r], "ERROR: Failed to construct types.Part: validation error"))
    /\ UNCHANGED <<API_KEY, uploads, docs, chat>>

\* client.models.generate_content raises: delete, then the error
T_GenerateFails(r) ==
    /\ rq[r].pc = "poll"
    /\ rq[r].file_state = "ACTIVE"
    /\ \E e \in GenerateCauses, ok \in BOOLEAN :
        Set(r, [Return(DeleteAsset(Call(rq[r], "generate"), ok),
                       "ERROR: Gemini API call failed during transcription: " \o e)
                EXCEPT !.response = "raise " \o e])
    /\ UNCHANGED <<API_KEY, uploads, docs, chat>>

\* response.candidates[0].content.parts[0].text.strip() of a well-formed response
Transcript(text) ==
    IF strip(text, " ") = "" THEN "ERROR: Gemini returned an empty transcript."
    ELSE strip(text, " ")

T_Generate_delete_matters(r) ==
    /\ rq[r].pc = "poll"
    /\ rq[r].file_state = "ACTIVE"
    /\ \E ok \in BOOLEAN, wellFormed \in BOOLEAN, text \in TranscriptTexts :
        Set(r, [Return(DeleteAsset(Call(rq[r], "generate"), ok),
                       IF ~ok THEN "ERROR: Failed to delete uploaded file"
                       ELSE IF wellFormed THEN Transcript(text)
                       ELSE "ERROR: Gemini returned an unparseable response structure: list index out of range")
                EXCEPT !.response = IF wellFormed THEN "text " \o text ELSE "no candidates"])
    /\ UNCHANGED <<API_KEY, uploads, docs, chat>>

T_Generate_unchecked(r) ==
    /\ rq[r].pc = "poll"
    /\ \E ok \in BOOLEAN, wellFormed \in BOOLEAN, text \in TranscriptTexts :
        Set(r, [Return(DeleteAsset(Call(rq[r], "generate"), ok),
                       IF wellFormed THEN Transcript(text)
                       ELSE "ERROR: Gemini returned an unparseable response structure: list index out of range")
                EXCEPT !.response = IF wellFormed THEN "text " \o text ELSE "no candidates"])
    /\ UNCHANGED <<API_KEY, uploads, docs, chat>>

\* generate_content returns; delete; then the response is parsed
T_Generate(r) ==
    /\ rq[r].pc = "poll"
    /\ rq[r].file_state = "ACTIVE"
    /\ \E ok \in BOOLEAN, wellFormed \in BOOLEAN, text \in TranscriptTexts :
        Set(r, [Return(DeleteAsset(Call(rq[r], "generate"), ok),
                       IF wellFormed THEN Transcript(text)
                       ELSE "ERROR: Gemini returned an unparseable response structure: list index out of range")
                EXCEPT !.response = IF wellFormed THEN "text " \o text ELSE "no candidates"])
    /\ UNCHANGED <<API_KEY, uploads, docs, chat>>

transcribe_audio(r) ==
    \/ T_Start(r) \/ T_Upload(r) \/ T_UploadFails(r)
    \/ T_Timeout(r) \/ T_Failed(r) \/ T_Poll(r) \/ T_PollFails(r)
    \/ T_PartsFail(r) \/ T_GenerateFails(r) \/ T_Generate(r)

(***************************************************************************)
(* main.py, handle_transcription: after transcribe_audio                   *)
(***************************************************************************)
\* any(key in lower for key in ['api key', 'api_key', 'expired'])
is_key_error(transcript) ==
    LET lower_ == lower(transcript) IN
    \E key \in {"api key", "api_key", "expired"} : Contains(lower_, key)

\* transcript.startswith("ERROR:"): os.remove(audio_path), then 401 or 500
H_TranscriptError(r) ==
    /\ rq[r].pc = "transcribed"
    /\ startswith(rq[r].transcript, "ERROR:")
    /\ Exists(rq[r].audio_path)
    /\ Remove(r, [Respond(rq[r], IF is_key_error(rq[r].transcript) THEN 401 ELSE 500,
                          rq[r].transcript) EXCEPT !.removed = TRUE],
              rq[r].audio_path)
    /\ UNCHANGED <<API_KEY, docs, chat>>

\* os.remove raises there (the file is gone, or it cannot be removed): the
\* handler's except clause takes over
H_TranscriptErrorRemoveFails(r) ==
    /\ rq[r].pc = "transcribed"
    /\ startswith(rq[r].transcript, "ERROR:")
    /\ Set(r, [rq[r] EXCEPT !.pc = "exc_check",
                            !.transcript = "(Unhandled error during transcription: os.remove failed)"])
    /\ UNCHANGED <<API_KEY, uploads, docs, chat>>

\* user_prompt_text or the default prompt
default_prompt(user_prompt_text, title_) ==
    IF user_prompt_text # "" THEN user_prompt_text
    ELSE "Generate notes on this transcript: " \o title_

\* the transcript is no error value: the form values, base_title and the
\* arguments of the call of generate_structured_notes
H_TranscriptOk(r) ==
    /\ rq[r].pc = "transcribed"
    /\ ~startswith(rq[r].transcript, "ERROR:")
    /\ \E user_prompt_text \in Prompts, template_name \in Templates :
        Set(r, [rq[r] EXCEPT
                    !.pc = "notes",
                    !.user_prompt = default_prompt(user_prompt_text, base_title(rq[r].filename)),
                    !.template = template_name,
                    !.custom_title = base_title(rq[r].filename)])
    /\ UNCHANGED <<API_KEY, uploads, docs, chat>>

\* except clause: if os.path.exists(audio_path)
H_ExcCheck(r) ==
    /\ rq[r].pc = "exc_check"
    /\ Set(r, IF Exists(rq[r].audio_path)
              THEN [rq[r] EXCEPT !.pc = "exc_remove"]
              ELSE Respond(rq[r], 500, rq[r].transcript))
    /\ UNCHANGED <<API_KEY, uploads, docs, chat>>

\* except clause: os.remove(audio_path), then 500
H_ExcRemove(r) ==
    /\ rq[r].pc = "exc_remove"
    /\ Exists(rq[r].audio_path)
    /\ Remove(r, [Respond(rq[r], 500, rq[r].transcript) EXCEPT !.removed = TRUE],
              rq[r].audio_path)
    /\ UNCHANGED <<API_KEY, docs, chat>>

\* os.remove raises inside the except clause: the exception leaves the handler
\* and the framework answers 500
H_ExcRemoveFails(r) ==
    /\ rq[r].pc = "exc_remove"
    /\ Set(r, Respond(rq[r], 500, "Internal Server Error"))
    /\ UNCHANGED <<API_KEY, uploads, docs, chat>>

(***************************************************************************)
(* gemini_notes_generator.py, generate_structured_notes                    *)
(***************************************************************************)
DOCX_DIR == "generated_docs/"

\* the fixed instruction text that opens every notes prompt
INSTRUCTIONS == "Please carefully review the attached audio file and its transcription.\n\n"

\* datetime.now().strftime("%Y%m%d_%H%M%S")
Timestamp == "20250101_093000"

build_prompt_both(transcript_text, user_prompt, template) ==
    INSTRUCTIONS \o "Transcript:\n" \o transcript_text
        \o (IF template # "" THEN "\n\nUse this note style template: " \o template \o "."
            ELSE "")
        \o (IF user_prompt # "" THEN "\n\nUser's prompt: " \o user_prompt ELSE "")

\* the prompt sent to the model: instructions, transcript, then the template
\* sentence or else the user-prompt sentence
build_prompt(transcript_text, user_prompt, template) ==
    INSTRUCTIONS \o "Transcript:\n" \o transcript_text
        \o (IF template # "" THEN "\n\nUse this note style template: " \o template \o "."
            ELSE IF user_prompt # "" THEN "\n\nUser's prompt: " \o user_prompt
            ELSE "")

notes_title(custom_title) ==
    IF custom_title # "" THEN sanitized_title(custom_title) ELSE "AI_Notes_" \o Timestamp

\* s.split("\n")
RECURSIVE split_lines(_)
split_lines(s) ==
    IF ~InStr("\n", s) THEN <<s>>
    ELSE <<SubSeq(s, 1, IndexIn("\n", s) - 1)>>
            \o split_lines(SubSeq(s, IndexIn("\n", s) + 1, Len(s)))

WHITESPACE == " \t\n"

RECURSIVE paragraphs_untrimmed(_)
paragraphs_untrimmed(lines) ==
    IF lines = <<>> THEN <<>>
    ELSE (IF startswith(Head(lines), BULLET) \/ startswith(Head(lines), "-")
          THEN <<[style |-> "List Bullet", text |-> Head(lines)]>>
          ELSE <<[style |-> "Normal", text |-> Head(lines)]>>)
            \o paragraphs_untrimmed(Tail(lines))

\* one paragraph per non-blank line, bullet style for lines that start with
\* the bullet character or "-"
RECURSIVE paragraphs(_)
paragraphs(lines) ==
    IF lines = <<>> THEN <<>>
    ELSE LET stripped_line == strip(Head(lines), WHITESPACE) IN
         (IF startswith(stripped_line, BULLET) \/ startswith(stripped_line, "-")
          THEN <<[style |-> "List Bullet", text |-> stripped_line]>>
          ELSE IF stripped_line # ""
          THEN <<[style |-> "Normal", text |-> stripped_line]>>
          ELSE <<>>) \o paragraphs(Tail(lines))

\* the document built from final_title and notes_text
Document(final_title, notes_text) ==
    <<[style |-> "Heading 1", text |-> replace(replace(final_title, "_", " "), "-", " ")]>>
        \o paragraphs(split_lines(notes_text))

\* generate_structured_notes returns (docx_path, None, final_title) to its
\* caller; user_prompt, template, prompt and notes_text end with the call
NotesReturn(rec, docx_path, final_title) ==
    [rec EXCEPT !.pc = "notes_returned", !.docx_path = docx_path, !.final_title = final_title,
                !.user_prompt = "", !.template = "", !.prompt = "", !.notes_text = ""]

\* generate_structured_notes returns (None, None, error)
NotesError(rec, error) == NotesReturn(rec, None, error)

N_ShortCircuit_calls(r) ==
    /\ rq[r].pc = "notes"
    /\ startswith(rq[r].transcript, "ERROR:")
    /\ \E e \in NotesCauses :
        Set(r, NotesError(Call(rq[r], "notes_generate"),
                          "ERROR: Note Generation API call failed: " \o e))
    /\ UNCHANGED <<API_KEY, uploads, docs, chat>>

\* an error value for a transcript is handed back, nothing else is done
N_ShortCircuit(r) ==
    /\ rq[r].pc = "notes"
    /\ startswith(rq[r].transcript, "ERROR:")
    /\ Set(r, NotesError(rq[r], rq[r].transcript))
    /\ UNCHANGED <<API_KEY, uploads, docs, chat>>

\* the prompt is built and the remote call returns a well-formed response:
\* title and path are fixed
N_Generate(r) ==
    /\ rq[r].pc = "notes"
    /\ ~startswith(rq[r].transcript, "ERROR:")
    /\ LET final_title == notes_title(rq[r].custom_title)
       IN \E text \in NotesTexts :
            Set(r, [Call(rq[r], "notes_generate") EXCEPT
                        !.pc = "save",
                        !.prompt = build_prompt(rq[r].transcript, rq[r].user_prompt,
                                                rq[r].template),
                        !.notes_text = strip(text, WHITESPACE),
                        !.final_title = final_title,
                        !.docx_path = DOCX_DIR \o final_title \o ".docx"])
    /\ UNCHANGED <<API_KEY, uploads, docs, chat>>

\* the remote call raises, or its response has no candidate text
N_GenerateFails(r) ==
    /\ rq[r].pc = "notes"
    /\ ~startswith(rq[r].transcript, "ERROR:")
    /\ \E e \in NotesCauses :
        Set(r, NotesError(Call(rq[r], "notes_generate"),
                          IF Contains(e, "model") /\ Contains(e, "not found")
                          THEN "ERROR: The AI Model specified is incorrect or unavailable: " \o e
                          ELSE "ERROR: Note Generation API call failed: " \o e))
    /\ UNCHANGED <<API_KEY, uploads, docs, chat>>

\* document.save(docx_path): whatever was stored under that path is replaced
N_Save(r) ==
    /\ rq[r].pc = "save"
    /\ docs' = [p \in DOMAIN docs \cup {rq[r].docx_path} |->
                  IF p = rq[r].docx_path
                  THEN Document(rq[r].final_title, rq[r].notes_text)
                  ELSE docs[p]]
    /\ Set(r, [NotesReturn(rq[r], rq[r].docx_path, rq[r].final_title) EXCEPT !.saved = TRUE])
    /\ UNCHANGED <<API_KEY, uploads, chat>>

N_SaveFails_retry(r) ==
    /\ rq[r].pc = "save"
    /\ Set(r, [rq[r] EXCEPT !.pc = "notes"])
    /\ UNCHANGED <<API_KEY, uploads, docs, chat>>

\* building or saving the document raises
N_SaveFails(r) ==
    /\ rq[r].pc = "save"
    /\ Set(r, NotesError(rq[r], "ERROR: Failed to save document to DOCX: [Errno 28] No space left on device"))
    /\ UNCHANGED <<API_KEY, uploads, docs, chat>>

generate_structured_notes(r) ==
    \/ N_ShortCircuit(r)
    \/ N_Generate(r) \/ N_GenerateFails(r) \/ N_Save(r) \/ N_SaveFails(r)

(***************************************************************************)
(* main.py, handle_transcription: after generate_structured_notes          *)
(***************************************************************************)
Respond200(rec) ==
    [rec EXCEPT !.pc = "done",
                !.resp = [status |-> 200, error |-> "", title |-> rec.final_title,
                          docx_path |-> rec.docx_path]]

\* if os.path.exists(audio_path)
H_CleanupCheck(r) ==
    /\ rq[r].pc = "notes_returned"
    /\ Set(r, IF Exists(rq[r].audio_path)
              THEN [rq[r] EXCEPT !.pc = "cleanup_remove"]
              ELSE Respond200(rq[r]))
    /\ UNCHANGED <<API_KEY, uploads, docs, chat>>

\* os.remove(audio_path), then 200
H_CleanupRemove(r) ==
    /\ rq[r].pc = "cleanup_remove"
    /\ Exists(rq[r].audio_path)
    /\ Remove(r, [Respond200(rq[r]) EXCEPT !.removed = TRUE], rq[r].audio_path)
    /\ UNCHANGED <<API_KEY, docs, chat>>

\* os.remove raises: the except clause of the notes step takes over
H_CleanupRemoveFails(r) ==
    /\ rq[r].pc = "cleanup_remove"
    /\ Set(r, [rq[r] EXCEPT !.pc = "exc_check",
                            !.transcript = "Note generation failed: os.remove failed"])
    /\ UNCHANGED <<API_KEY, uploads, docs, chat>>

handle_transcription(r) ==
    \/ Receive(r) \/ OpenUpload(r) \/ OpenUploadFails(r)
    \/ WriteUpload(r) \/ WriteUploadFails(r) \/ CheckSaved(r)
    \/ transcribe_audio(r)
    \/ H_TranscriptError(r) \/ H_TranscriptErrorRemoveFails(r) \/ H_TranscriptOk(r)
    \/ H_ExcCheck(r) \/ H_ExcRemove(r) \/ H_ExcRemoveFails(r)
    \/ N_Generate(r) \/ N_GenerateFails(r) \/ N_Save(r) \/ N_SaveFails(r)
    \/ H_CleanupCheck(r) \/ H_CleanupRemove(r) \/ H_CleanupRemoveFails(r)

(***************************************************************************)
(* main.py, handle_ai_chat                                                 *)
(***************************************************************************)
Messages == {"", "Summarize my notes"}

handle_ai_chat ==
    /\ \E user_message \in Messages, ok \in BOOLEAN :
        chat' = IF not_API_KEY THEN [status |-> 401, calls |-> 0]
                ELSE IF user_message = "" THEN [status |-> 200, calls |-> 0]
                ELSE [status |-> IF ok THEN 200 ELSE 500, calls |-> 1]
    /\ UNCHANGED <<API_KEY, uploads, docs, rq>>

(***************************************************************************)
(* Specifications                                                          *)
(***************************************************************************)
\* two concurrent requests to POST /api/transcribe
Next == \E r \in Reqs : handle_transcription(r)

Spec == Init /\ [][Next]_vars

\* one request to POST /api/transcribe, and requests to POST /api/chat
InitApi ==
    /\ API_KEY \in {"", "AIzaSy-key"}
    /\ uploads = <<>>
    /\ docs = <<>>
    /\ rq = [r \in Reqs |-> IF r = "r1" THEN InitReq ELSE [InitReq EXCEPT !.pc = "absent"]]
    /\ chat = [status |-> 0, calls |-> 0]

NextApi == Next \/ handle_ai_chat

SpecApi == InitApi /\ [][NextApi]_vars

\* one request to POST /api/transcribe whose call of transcribe_audio keeps
\* running: every remote call returns and every sleep ends
SpecLive == InitApi /\ [][NextApi]_vars /\ WF_vars(transcribe_audio("r1"))

\* arguments of direct calls of generate_structured_notes
NoteTranscripts == {"Hello team.", "ERROR: Gemini returned an empty transcript."}

NotePrompts == {"", "Focus on decisions", "Generate notes on this transcript: Meeting"}

NoteTitles == {"", "My Meeting Notes!", "Q3_plan-v2"}

\* a note store that holds a document already
StoredNotes ==
    [p \in {DOCX_DIR \o "My-Meeting-Notes.docx"} |-> Document("My-Meeting-Notes", "- old")]

\* generate_structured_notes called with any arguments
InitNotes ==
    /\ API_KEY = "AIzaSy-key"
    /\ uploads = <<>>
    /\ docs \in {<<>>, StoredNotes}
    /\ \E transcript_text \in NoteTranscripts, user_prompt \in NotePrompts,
          custom_title \in NoteTitles, template \in Templates :
        rq = [r \in Reqs |->
                IF r = "r1"
                THEN [InitReq EXCEPT !.pc = "notes", !.transcript = transcript_text,
                                     !.user_prompt = user_prompt,
                                     !.custom_title = custom_title,
                                     !.template = template]
                ELSE [InitReq EXCEPT !.pc = "absent"]]
    /\ chat = [status |-> 0, calls |-> 0]

NextNotes == \E r \in Reqs : generate_structured_notes(r)

SpecNotes == InitNotes /\ [][NextNotes]_vars

(***************************************************************************)
(* Properties                                                              *)
(***************************************************************************)
Has(seq, name) == \E i \in DOMAIN seq : seq[i] = name

Count(seq, name) == Cardinality({i \in DOMAIN seq : seq[i] = name})

Stepped(r) == rq'[r] # rq[r]

Done(r) == rq[r].pc = "done"

\* C1: whenever transcribe_audio returns after a successful upload, a delete of
\* the staged asset has been issued -- on every exit path.
C1_NoOrphanedAsset ==
    \A r \in Reqs :
        rq[r].pc = "transcribed" /\ rq[r].asset # "none" => Has(rq[r].calls, "delete")

\* C2: when the response to POST /api/transcribe is returned, the file the
\* request wrote under the upload folder no longer exists.
C2_TempUploadNeverRetained ==
    \A r \in Reqs :
        Done(r) /\ rq[r].wrote =>
            ~(Exists(rq[r].audio_path) /\ uploads[rq[r].audio_path].owner = r)

\* C3: every 200 response carries a title that is no error message and the
\* path of a document that was persisted (a failure of the notes step is a 500).
C3_NotesFailureIs500 ==
    \A r \in Reqs :
        Done(r) /\ rq[r].resp.status = 200 =>
            /\ ~startswith(rq[r].resp.title, "ERROR:")
            /\ rq[r].resp.docx_path # None
            /\ rq[r].resp.docx_path \in DOMAIN docs

\* the message names the API key or an authorization failure
MentionsCredentialIssue(message) ==
    \E word \in {"api key", "api_key", "permission_denied", "unauthorized", "unauthenticated"} :
        Contains(lower(message), word)

\* C4: when transcribe_audio returned an error value, the response comes with
\* the temp upload deleted and no notes call made, and its status is 401 if
\* the message mentions an API-key/authorization issue and 500 otherwise.
C4_TranscriptionErrorStatus ==
    \A r \in Reqs :
        Done(r) /\ startswith(rq[r].returned, "ERROR:") =>
            /\ rq[r].removed
            /\ ~Has(rq[r].calls, "notes_generate")
            /\ rq[r].resp.status = IF MentionsCredentialIssue(rq[r].returned) THEN 401 ELSE 500

\* the extension of a file name: what follows its last dot, in lower case
ExtensionOf(filename) == IF InStr(".", filename) THEN lower(rsplit_tail(filename)) ELSE ""

BadInput(r) ==
    \/ ~rq[r].hasAudio
    \/ rq[r].orig = ""
    \/ ExtensionOf(rq[r].orig) \notin {"mp3", "wav", "m4a", "flac", "webm"}

\* C5: with the credential present, a request is answered 400 exactly when it
\* has no 'audio' part, an empty file name or an extension outside the
\* allow-list; such a request goes no further, and no other request gets 400.
C5_BadInputIs400 ==
    \A r \in Reqs :
        API_KEY # "" /\ rq[r].pc \notin {"idle", "absent"} =>
            (BadInput(r) <=> Done(r) /\ rq[r].resp.status = 400)

C5_Witness ==
    /\ API_KEY # ""
    /\ \E r \in Reqs : Done(r) /\ rq[r].resp.status = 400
                        /\ rq[r].hasAudio /\ rq[r].orig = "notes.txt"

\* C6: with the credential unset, every request to POST /api/transcribe and
\* to POST /api/chat is answered 401 and no remote call is made.
C6_MissingCredentialIs401 ==
    API_KEY = "" =>
        /\ \A r \in Reqs :
            rq[r].pc \notin {"idle", "absent"} =>
                /\ Done(r) /\ rq[r].resp.status = 401
                /\ rq[r].calls = <<>> /\ rq[r].asset = "none"
        /\ chat.status # 0 => chat.status = 401 /\ chat.calls = 0

C6_Witness ==
    /\ API_KEY = ""
    /\ chat.status = 401
    /\ \E r \in Reqs : Done(r) /\ rq[r].resp.status = 401 /\ rq[r].hasAudio
                        /\ rq[r].orig = "Meeting.MP3"

\* staging has succeeded: the loop is left with the asset ACTIVE
C7_Staged ==
    \A r \in Reqs :
        rq[r].pc = "poll" /\ rq[r].file_state = "ACTIVE" =>
            rq[r].sleeps = rq[r].pending /\ Count(rq[r].calls, "delete") = 0

C7_FailedFirst ==
    \A r \in Reqs :
        rq[r].pc = "poll" /\ rq[r].first_state = "FAILED" /\ Stepped(r) =>
            /\ rq[r].sleeps = 0
            /\ rq'[r].pc = "transcribed"
            /\ rq'[r].transcript = "ERROR: File processing failed on Gemini's side."
            /\ Count(rq'[r].calls, "delete") = 1

C7_TimedOut ==
    \A r \in Reqs :
        /\ rq[r].pc = "poll" /\ rq[r].file_state = "PROCESSING"
        /\ rq[r].pending = rq[r].sleeps + 1
        /\ rq[r].elapsed > 120
        /\ Stepped(r)
        => /\ rq'[r].pc = "transcribed"
           /\ rq'[r].transcript = "ERROR: File processing timed out after 120s."
           /\ Count(rq'[r].calls, "delete") = 1

\* C7: after k PROCESSING observations followed by ACTIVE the loop is left
\* after exactly k sleeps and without a delete; an asset FAILED at its first
\* observation gives the processing-failed error with no sleep and one delete;
\* an asset still PROCESSING after more than 120 s gives the timeout error
\* with one delete.
C7_PollLoop == []C7_Staged /\ [][C7_FailedFirst /\ C7_TimedOut]_vars

C7_Witness ==
    \E r \in Reqs : /\ rq[r].pc = "poll" /\ rq[r].file_state = "ACTIVE"
                    /\ rq[r].first_state = "PROCESSING" /\ rq[r].sleeps = 2
                    /\ rq[r].pending = 2

\* C8: once the generation request has been issued, exactly one delete of the
\* staged asset is issued, whatever the generation call does.
C8_OneDeleteAfterGenerate ==
    \A r \in Reqs :
        Has(rq[r].calls, "generate") => Count(rq[r].calls, "delete") = 1

C8_Witness ==
    \E r \in Reqs :
        /\ rq[r].pc = "transcribed" /\ Has(rq[r].calls, "generate")
        /\ startswith(rq[r].transcript, "ERROR: Gemini returned an unparseable")

\* C9: a document stored in the note store is never changed or replaced.
C9_NoteStoreAppendOnly ==
    [][\A p \in DOMAIN docs : p \in DOMAIN docs' /\ docs'[p] = docs[p]]_vars

\* C10: the bytes a request stages are its own, and a request removes no
\* temp upload but its own.
C10_RequestsIsolated ==
    \A r \in Reqs :
        /\ rq[r].staged # "none" => rq[r].staged = r
        /\ ~rq[r].removedForeign

\* C11: with a non-empty template the prompt holds the template sentence and
\* neither the user-prompt sentence nor the user prompt, whatever the user
\* prompt is; with an empty template and a non-empty user prompt it holds the
\* user-prompt sentence; it never holds both sentences.
C11_TemplatePrecedence ==
    \A r \in Reqs :
        rq[r].pc = "save" =>
            LET p == rq[r].prompt
                hasTemplate == Contains(p, "Use this note style template: ")
                hasUser == Contains(p, "User's prompt: ")
            IN /\ rq[r].template # "" =>
                    /\ Contains(p, "Use this note style template: " \o rq[r].template \o ".")
                    /\ ~hasUser
                    /\ rq[r].user_prompt # "" => ~Contains(p, rq[r].user_prompt)
               /\ rq[r].template = "" /\ rq[r].user_prompt # "" =>
                    Contains(p, "User's prompt: " \o rq[r].user_prompt)
               /\ ~(hasTemplate /\ hasUser)

C11_Witness ==
    \E r \in Reqs :
        /\ rq[r].pc = "save"
        /\ rq[r].template = "Cornell"
        /\ rq[r].user_prompt = "Generate notes on this transcript: Meeting"
        /\ Contains(rq[r].prompt, "Use this note style template: Cornell.")

\* positions of the line breaks of a text, and its k-th line
Breaks(text) == {i \in 1..Len(text) : Char(text, i) = "\n"}

BreakAt(text, k) ==
    IF k = 0 THEN 0
    ELSE IF k > Cardinality(Breaks(text)) THEN Len(text) + 1
    ELSE CHOOSE i \in Breaks(text) : Cardinality({j \in Breaks(text) : j <= i}) = k

LineAt(text, k) == SubSeq(text, BreakAt(text, k - 1) + 1, BreakAt(text, k) - 1)

\* a line without its leading and trailing white space
Inked(line) == {i \in 1..Len(line) : Char(line, i) \notin {" ", "\t", "\n"}}

Trimmed(line) ==
    IF Inked(line) = {} THEN ""
    ELSE SubSeq(line, CHOOSE i \in Inked(line) : \A j \in Inked(line) : i <= j,
                      CHOOSE i \in Inked(line) : \A j \in Inked(line) : i >= j)

NonBlank(text) == {k \in 1..(Cardinality(Breaks(text)) + 1) : Trimmed(LineAt(text, k)) # ""}

\* the title with its separators as spaces
Humanized(t, h) ==
    /\ Len(h) = Len(t)
    /\ \A i \in 1..Len(t) :
        Char(h, i) = IF Char(t, i) \in {"_", "-"} THEN " " ELSE Char(t, i)

Rendered(doc, final_title, text) ==
    /\ Len(doc) = 1 + Cardinality(NonBlank(text))
    /\ doc[1].style = "Heading 1"
    /\ Humanized(final_title, doc[1].text)
    /\ \A k \in NonBlank(text) :
        LET entry == doc[1 + Cardinality({j \in NonBlank(text) : j <= k})] IN
        /\ entry.text = Trimmed(LineAt(text, k))
        /\ entry.style = IF Char(entry.text, 1) \in {BULLET, "-"} THEN "List Bullet" ELSE "Normal"

\* C12: the document that is saved is a heading, the humanized title, followed
\* by one entry per non-blank line of the notes text, in order and trimmed,
\* bullet style exactly for the lines that start with the bullet character or "-".
C12_Rendering ==
    [][\A r \in Reqs :
        rq[r].pc = "save" /\ rq'[r].saved =>
            /\ rq[r].docx_path \in DOMAIN docs'
            /\ Rendered(docs'[rq[r].docx_path], rq[r].final_title, rq[r].notes_text)]_vars

C12_Witness ==
    \E r \in Reqs :
        /\ rq[r].saved /\ rq[r].final_title = "Q3_plan-v2"
        /\ docs[rq[r].docx_path] = <<[style |-> "Heading 1", text |-> "Q3 plan v2"],
                                     [style |-> "Normal", text |-> "Intro"],
                                     [style |-> "List Bullet", text |-> "- point one"],
                                     [style |-> "Normal", text |-> "Summary line"]>>

\* the characters of a title that are kept: spaces, word characters, hyphens
KeptAt(t) == {i \in 1..Len(t) : Char(t, i) = " " \/ Char(t, i) = "-" \/ IsWordChar(Char(t, i))}

\* f is t with every space as a hyphen and all other characters but word
\* characters and hyphens left out
SanitizedOf(t, f) ==
    /\ Len(f) = Cardinality(KeptAt(t))
    /\ \A i \in KeptAt(t) :
        Char(f, Cardinality({j \in KeptAt(t) : j <= i})) =
            IF Char(t, i) = " " THEN "-" ELSE Char(t, i)

\* C13: for a non-empty custom title the final title is the custom title with
\* spaces as hyphens and everything but word characters and hyphens removed
\* ("My Meeting Notes!" gives "My-Meeting-Notes"), and the note is stored
\* under the final title followed by ".docx".
C13_TitleSanitization ==
    \A r \in Reqs :
        rq[r].pc \in {"save", "notes_returned"} /\ rq[r].custom_title # ""
            /\ rq[r].docx_path # None =>
            /\ SanitizedOf(rq[r].custom_title, rq[r].final_title)
            /\ rq[r].custom_title = "My Meeting Notes!" => rq[r].final_title = "My-Meeting-Notes"
            /\ rq[r].docx_path = "generated_docs/" \o rq[r].final_title \o ".docx"
            /\ rq[r].saved => rq[r].docx_path \in DOMAIN docs

C13_Witness ==
    \E r \in Reqs :
        /\ rq[r].saved /\ rq[r].custom_title = "My Meeting Notes!"
        /\ rq[r].docx_path = "generated_docs/My-Meeting-Notes.docx"
        /\ rq[r].docx_path \in DOMAIN docs

\* C14: a request whose transcription and notes generation succeeded and whose
\* document was persisted is answered 200, also when removing the temp
\* upload fails.
C14_CleanupFailureStill200 ==
    \A r \in Reqs :
        Done(r) /\ rq[r].saved => rq[r].resp.status = 200

\* C15: the generation request is issued only while the last observed state
\* of the staged asset is ACTIVE, and never after a delete of the asset.
C15_GenerateOnlyWhenActive ==
    [][\A r \in Reqs :
        Count(rq'[r].calls, "generate") > Count(rq[r].calls, "generate") =>
            /\ rq[r].file_state = "ACTIVE"
            /\ rq[r].asset = "stored"
            /\ ~Has(rq[r].calls, "delete")]_vars

C15_Witness ==
    \E r \in Reqs :
        /\ rq[r].pc = "transcribed"
        /\ rq[r].calls = <<"upload", "generate", "delete">>
        /\ rq[r].transcript = "Hello team."

\* C16: two calls of transcribe_audio that got the same generation response
\* return the same value, whether or not their deletes of the staged asset
\* succeeded.
C16_ResultIndependentOfDelete ==
    \A r1, r2 \in Reqs :
        /\ Has(rq[r1].calls, "generate") /\ Has(rq[r2].calls, "generate")
        /\ rq[r1].response = rq[r2].response
        => rq[r1].returned = rq[r2].returned

C16_Witness ==
    \E r1, r2 \in Reqs :
        /\ rq[r1].response = "text  Hello team. " /\ rq[r2].response = rq[r1].response
        /\ rq[r1].asset = "deleted" /\ rq[r2].asset = "stored"
        /\ rq[r1].returned = "Hello team." /\ rq[r2].returned = "Hello team."

Before(seq, first, second) ==
    \A i, j \in DOMAIN seq : seq[i] = first /\ seq[j] = second => i < j

\* C17: a request issues at most one upload, one transcription generation
\* call and one notes generation call, in that order; the notes call is issued
\* only after transcribe_audio returned a transcript that is no error value,
\* and a document is persisted only after the notes call succeeded.
C17_NoRetriesInOrder ==
    /\ \A r \in Reqs :
        /\ \A name \in {"upload", "generate", "notes_generate"} : Count(rq[r].calls, name) <= 1
        /\ Before(rq[r].calls, "upload", "generate")
        /\ Before(rq[r].calls, "upload", "notes_generate")
        /\ Before(rq[r].calls, "generate", "notes_generate")
        /\ Has(rq[r].calls, "generate") => Has(rq[r].calls, "upload")
        /\ Has(rq[r].calls, "notes_generate") =>
            /\ Has(rq[r].calls, "generate")
            /\ rq[r].returned # "" /\ ~startswith(rq[r].returned, "ERROR:")
        /\ rq[r].saved =>
            /\ Has(rq[r].calls, "notes_generate")
            /\ rq[r].docx_path # None /\ ~startswith(rq[r].final_title, "ERROR:")
    /\ DOMAIN docs # {} => \E r \in Reqs : rq[r].saved

C17_Witness ==
    \E r \in Reqs :
        /\ Done(r) /\ rq[r].resp.status = 200 /\ rq[r].saved
        /\ rq[r].calls = <<"upload", "generate", "delete", "notes_generate">>

\* the request is inside its call of transcribe_audio
InTranscribe(r) == rq[r].pc \in {"transcribe", "upload", "poll"}

\* a status poll is issued in this step, after the sleep that precedes it
PollIssued(r) == rq'[r].sleeps > rq[r].sleeps

Returns == \A r \in Reqs : InTranscribe(r) ~> ~InTranscribe(r)

\* C18 as stated: every call of transcribe_audio eventually returns, and no
\* status poll is issued once more than 120 s have elapsed since the upload.
C18_NoPollAfterBudget ==
    /\ Returns
    /\ [][\A r \in Reqs : PollIssued(r) => rq'[r].elapsed <= timeout_seconds]_vars

\* the most status polls one call can issue
MaxPolls == timeout_seconds \div sleep_seconds + 1

\* C18: every call of transcribe_audio eventually returns, after at most 61
\* status polls, even if the asset stays in PROCESSING: no sleep-and-poll is
\* started once more than 120 s have elapsed since the upload, so the last
\* poll is issued at most 122 s after it.
C18_PollLoopTerminates ==
    /\ Returns
    /\ [](\A r \in Reqs : rq[r].sleeps <= MaxPolls)
    /\ [][\A r \in Reqs :
            PollIssued(r) => /\ rq[r].elapsed <= timeout_seconds
                             /\ rq'[r].elapsed <= timeout_seconds + sleep_seconds]_vars

C18_Witness ==
    \E r \in Reqs :
        /\ rq[r].pc = "poll" /\ rq[r].file_state = "PROCESSING"
        /\ rq[r].sleeps = 61 /\ rq[r].pending = 62 /\ rq[r].elapsed = 122

\* C19: called with a transcript that starts with "ERROR:",
\* generate_structured_notes returns (None, None, transcript) in its first
\* step, issues no remote call and leaves the note store as it is.
C19_ShortCircuit ==
    [][\A r \in Reqs :
        rq[r].pc = "notes" /\ startswith(rq[r].transcript, "ERROR:") /\ Stepped(r) =>
            /\ rq'[r].pc = "notes_returned"
            /\ rq'[r].docx_path = None
            /\ rq'[r].final_title = rq[r].transcript
            /\ rq'[r].calls = rq[r].calls
            /\ ~rq'[r].saved
            /\ docs' = docs]_vars

C19_Witness ==
    \E r \in Reqs :
        /\ rq[r].pc = "notes_returned"
        /\ rq[r].final_title = "ERROR: Gemini returned an empty transcript."
        /\ rq[r].docx_path = None /\ rq[r].calls = <<>>
        /\ docs = StoredNotes

\* the request was answered 400, or 401 for the missing credential
Rejected(resp) ==
    \/ resp.status = 400
    \/ /\ resp.status = 401
       /\ resp.error = "GEMINI_API_KEY is missing. Please set it in your environment."

RejectedClean ==
    \A r \in Reqs :
        Done(r) /\ Rejected(rq[r].resp) =>
            /\ rq[r].calls = <<>> /\ rq[r].asset = "none"
            /\ ~rq[r].wrote /\ ~rq[r].removed /\ ~rq[r].saved

\* C20: the step that answers a request 400, or 401 for the missing
\* credential, changes neither the upload folder nor the note store nor any
\* other request, and the request has issued no remote call and staged no
\* asset.
C20_RejectedNoSideEffects ==
    /\ []RejectedClean
    /\ [][\A r \in Reqs :
            ~Done(r) /\ rq'[r].pc = "done" /\ Rejected(rq'[r].resp) =>
                /\ rq[r].pc = "idle"
                /\ uploads' = uploads /\ docs' = docs
                /\ \A q \in Reqs \ {r} : rq'[q] = rq[q]]_vars

C20_Witness ==
    \E r, q \in Reqs :
        /\ Done(r) /\ rq[r].resp.status = 400 /\ rq[r].orig = "notes.txt"
        /\ rq[q].pc = "write" /\ Exists(rq[q].audio_path)

\* C21: the path built for an upload whose file name passed allowed_file has
\* an extension that is in MIME_TYPE_MAP, so transcribe_audio never returns
\* the unsupported-file-type error for it; and that error is returned before
\* any upload to the remote store.
C21_ExtensionChecksAgree ==
    \A r \in Reqs :
        /\ rq[r].audio_path # "" /\ allowed_file(rq[r].orig) =>
            /\ lower(splitext_ext(rq[r].audio_path)) \in MIME_TYPE_MAP
            /\ ~startswith(rq[r].returned, "ERROR: Unsupported file type")
        /\ startswith(rq[r].returned, "ERROR: Unsupported file type") =>
            ~Has(rq[r].calls, "upload")
====
